---- MODULE Spec2Model ----
(***************************************************************************)
(* The room actions of web/features/room/action.ts: selectChairAction,     *)
(* activateAction (the round outcome resolver) and changeTurnAction (the   *)
(* turn confirmation barrier), acting on one room document.                *)
(*                                                                         *)
(* The document store (getRoom, updateRoom, confirmTurnResult) and         *)
(* plainRoundData are imported by action.ts from modules that are not part *)
(* of the sources at hand; they are modelled from the written              *)
(* specification (sections 4.2 and 6).                                     *)
(***************************************************************************)
EXTENDS Integers, Sequences, FiniteSets

VARIABLES players, round, remainingChairs, winnerId, activations, snapshot, txn

vars == <<players, round, remainingChairs, winnerId, activations, snapshot, txn>>

\* the calls in flight: the room an activateAction call has read and not yet
\* written back, and the round each player's confirmTurnResult transaction
\* has read and not yet committed; << >> when there is none
inflight == <<snapshot, txn>>

----------------------------------------------------------------------------
(* Bounds of the model *)

\* chairs are numbered 1..NumChairs
NumChairs == 2
\* the score p1 holds when the room is first observed late in a game
StartPoint == 38
\* activateAction is called at most MaxActivations times
MaxActivations == 3
\* and at most MaxRaceActivations times when calls overlap
MaxRaceActivations == 2

----------------------------------------------------------------------------
(* Values *)

\* point >= 40 is a score victory
WinPoint == 40
\* shockedCount === 3 eliminates a player
ShockLimit == 3
\* null in round.electricChair / round.seatedChair
NoChair == -1
\* null in winnerId, result.status
Null == "null"
Draw == "draw"

Chairs == 1..NumChairs
PlayerIds == {"p1", "p2"}
\* the ids a caller may present: the two players and a stranger
UserIds == PlayerIds \cup {"x"}
\* the id of the room, and an id no room has
RoomId == "room"
RoomIds == {RoomId, "none"}

\* The room document as one value
Room == [players |-> players, round |-> round,
         remainingChairs |-> remainingChairs, winnerId |-> winnerId]

\* plainRoundData.round: the initial "select" values of a round
plainRound ==
    [attackerId |-> "p1", turn |-> "top", count |-> 1, phase |-> "select",
     electricChair |-> NoChair, seatedChair |-> NoChair,
     result |-> [status |-> Null, confirmedIds |-> <<>>, shownResult |-> FALSE]]

----------------------------------------------------------------------------
(* activateAction: the pure part *)

\* const isShocked = round.electricChair === round.seatedChair
isShocked(rd) == rd.electricChair = rd.seatedChair

\* (round.seatedChair || 0)
SeatValue(c) == IF c = NoChair THEN 0 ELSE c

\* updatedPlayers with the outcome applied to the player who is not attacking
updatedPlayersWrongPlayer(ps, rd) ==
    [i \in DOMAIN ps |->
        IF ps[i].id # rd.attackerId
        THEN [ps[i] EXCEPT
                !.point = IF isShocked(rd) THEN 0 ELSE @ + SeatValue(rd.seatedChair),
                !.shockedCount = IF isShocked(rd) THEN @ + 1 ELSE @]
        ELSE ps[i]]

\* players.map(...): the attacker's point and shockedCount
updatedPlayers(ps, rd) ==
    [i \in DOMAIN ps |->
        IF ps[i].id = rd.attackerId
        THEN [ps[i] EXCEPT
                !.point = IF isShocked(rd) THEN 0 ELSE @ + SeatValue(rd.seatedChair),
                !.shockedCount = IF isShocked(rd) THEN @ + 1 ELSE @]
        ELSE ps[i]]

\* remainingChairs, with seatedChair filtered out unless shocked
updatedChairs(chairs, rd) ==
    IF isShocked(rd) THEN chairs ELSE chairs \ {rd.seatedChair}

\* players.find((player) => player.id !== attackerId)?.id
defenderId(ps, attackerId) ==
    IF \E i \in DOMAIN ps : ps[i].id # attackerId
    THEN LET i == CHOOSE j \in DOMAIN ps :
                    /\ ps[j].id # attackerId
                    /\ \A k \in DOMAIN ps : ps[k].id # attackerId => j <= k
         IN ps[i].id
    ELSE Null

\* updatedPlayers.reduce((prev, current) => ...).id, without an initial value
RECURSIVE reduceWinner(_, _, _)
reduceWinner(prev, ups, i) ==
    IF i > Len(ups) THEN prev
    ELSE IF ups[i].point > prev.point THEN reduceWinner(ups[i], ups, i + 1)
    ELSE IF ups[i].point = prev.point
         THEN reduceWinner([id |-> Draw, point |-> -1, shockedCount |-> -1], ups, i + 1)
    ELSE reduceWinner(prev, ups, i + 1)

\* chairWinner with a tie going to the later player instead of "draw"
chairWinnerTieToLast(ups) ==
    IF ups[2].point >= ups[1].point THEN ups[2].id ELSE ups[1].id

chairWinner(ups) == reduceWinner(ups[1], ups, 2).id

\* judgeWinner with chair exhaustion also firing when no chair is left
judgeWinnerAtMostOne(ps, ups, chairs, rd) ==
    IF \E i \in DOMAIN ups : ups[i].point >= WinPoint
    THEN rd.attackerId
    ELSE IF \E i \in DOMAIN ups : ups[i].shockedCount = ShockLimit
    THEN defenderId(ps, rd.attackerId)
    ELSE IF Cardinality(chairs) <= 1
    THEN chairWinner(ups)
    ELSE Null

\* The winner decision: score, then elimination, then chair exhaustion
judgeWinner(ps, ups, chairs, rd) ==
    IF \E i \in DOMAIN ups : ups[i].point >= WinPoint
    THEN rd.attackerId
    ELSE IF \E i \in DOMAIN ups : ups[i].shockedCount = ShockLimit
    THEN defenderId(ps, rd.attackerId)
    ELSE IF Cardinality(chairs) = 1
    THEN chairWinner(ups)
    ELSE Null

\* The partial update activateAction writes for the room it has read
activateData(rm) ==
    LET ups    == updatedPlayers(rm.players, rm.round)
        chairs == updatedChairs(rm.remainingChairs, rm.round)
    IN [players         |-> ups,
        remainingChairs |-> chairs,
        winnerId        |-> judgeWinner(rm.players, ups, chairs, rm.round),
        round           |-> [rm.round EXCEPT
                                !.phase = "result",
                                !.result.status =
                                    IF isShocked(rm.round) THEN "shocked" ELSE "safe"]]

----------------------------------------------------------------------------
(* changeTurnAction: the callback given to confirmTurnResult.  The result  *)
(* is <<>> for null and <<r>> for the update { round: r }.                 *)

\* nextAttackerId taking the player who confirmed last
nextAttackerIdLast(rd, confirmedIds) == confirmedIds[Len(confirmedIds)]

\* confirmedIds.find((id) => id !== round.attackerId) ?? confirmedIds[0]
nextAttackerId(rd, confirmedIds) ==
    IF \E i \in DOMAIN confirmedIds : confirmedIds[i] # rd.attackerId
    THEN LET i == CHOOSE j \in DOMAIN confirmedIds :
                    /\ confirmedIds[j] # rd.attackerId
                    /\ \A k \in DOMAIN confirmedIds :
                          confirmedIds[k] # rd.attackerId => j <= k
         IN confirmedIds[i]
    ELSE confirmedIds[1]

\* resolver counting a cycle on every advance, after a top turn too
resolverCountEveryTurn(rd, confirmedIds) ==
    IF Len(confirmedIds) = 1
    THEN << [rd EXCEPT !.result.confirmedIds = confirmedIds,
                       !.result.shownResult = TRUE] >>
    ELSE IF Len(confirmedIds) = 2
    THEN << [plainRound EXCEPT !.attackerId = nextAttackerId(rd, confirmedIds),
                               !.turn = IF rd.turn = "top" THEN "bottom" ELSE "top",
                               !.count = rd.count + 1] >>
    ELSE << >>

\* resolver recording the first confirmation without setting shownResult
resolverNoShownResult(rd, confirmedIds) ==
    IF Len(confirmedIds) = 1
    THEN << [rd EXCEPT !.result.confirmedIds = confirmedIds] >>
    ELSE IF Len(confirmedIds) = 2
    THEN IF rd.turn = "top"
         THEN << [plainRound EXCEPT !.attackerId = nextAttackerId(rd, confirmedIds),
                                    !.turn = "bottom",
                                    !.count = rd.count] >>
         ELSE << [plainRound EXCEPT !.attackerId = nextAttackerId(rd, confirmedIds),
                                    !.turn = "top",
                                    !.count = rd.count + 1] >>
    ELSE << >>

\* resolver that records the first confirmation and never advances the round
resolverNeverAdvances(rd, confirmedIds) ==
    IF Len(confirmedIds) = 1
    THEN << [rd EXCEPT !.result.confirmedIds = confirmedIds,
                       !.result.shownResult = TRUE] >>
    ELSE << >>

\* resolver taking every confirmation from the second on as the second
resolverFromTwo(rd, confirmedIds) ==
    IF Len(confirmedIds) = 1
    THEN << [rd EXCEPT !.result.confirmedIds = confirmedIds,
                       !.result.shownResult = TRUE] >>
    ELSE IF Len(confirmedIds) >= 2
    THEN IF rd.turn = "top"
         THEN << [plainRound EXCEPT !.attackerId = nextAttackerId(rd, confirmedIds),
                                    !.turn = "bottom",
                                    !.count = rd.count] >>
         ELSE << [plainRound EXCEPT !.attackerId = nextAttackerId(rd, confirmedIds),
                                    !.turn = "top",
                                    !.count = rd.count + 1] >>
    ELSE << >>

resolver(rd, confirmedIds) ==
    IF Len(confirmedIds) = 1
    THEN << [rd EXCEPT !.result.confirmedIds = confirmedIds,
                       !.result.shownResult = TRUE] >>
    ELSE IF Len(confirmedIds) = 2
    THEN IF rd.turn = "top"
         THEN << [plainRound EXCEPT !.attackerId = nextAttackerId(rd, confirmedIds),
                                    !.turn = "bottom",
                                    !.count = rd.count] >>
         ELSE << [plainRound EXCEPT !.attackerId = nextAttackerId(rd, confirmedIds),
                                    !.turn = "top",
                                    !.count = rd.count + 1] >>
    ELSE << >>

----------------------------------------------------------------------------
(* The document store *)

\* getRoom: the room, when roomId names it
getRoom(roomId) ==
    IF roomId = RoomId THEN [status |-> 200, data |-> Room]
    ELSE [status |-> 404, data |-> Room]

\* confirmTurnResult without the check of the round's phase
confirmTurnResultAnyPhase(roomId, userId) ==
    IF roomId # RoomId THEN [status |-> 404, round |-> round]
    ELSE IF \A i \in DOMAIN players : players[i].id # userId
    THEN [status |-> 403, round |-> round]
    ELSE LET confirmedIds == Append(round.result.confirmedIds, userId)
             update == resolver(round, confirmedIds)
         IN IF update = << >>
            THEN [status |-> 200, round |-> round]
            ELSE [status |-> 200, round |-> update[1]]

\* confirmTurnResult: one transaction on the room.  The caller must be one
\* of the room's players and the round must be in its result phase; the
\* caller's id is appended to the recorded confirmedIds and the callback
\* decides the update; null writes nothing.
confirmTurnResult(roomId, userId) ==
    IF roomId # RoomId THEN [status |-> 404, round |-> round]
    ELSE IF \A i \in DOMAIN players : players[i].id # userId
    THEN [status |-> 403, round |-> round]
    ELSE IF round.phase # "result"
    THEN [status |-> 409, round |-> round]
    ELSE LET confirmedIds == Append(round.result.confirmedIds, userId)
             update == resolver(round, confirmedIds)
         IN IF update = << >>
            THEN [status |-> 200, round |-> round]
            ELSE [status |-> 200, round |-> update[1]]

----------------------------------------------------------------------------
(* The state machine *)

\* The room when it is first observed: both players have joined and no
\* winner is decided.  Either the game is at its start, or p1 is late in a
\* game: StartPoint points scored and one shock short of elimination.
InitPlayers ==
    { << [id |-> "p1", point |-> 0, shockedCount |-> 0],
         [id |-> "p2", point |-> 0, shockedCount |-> 0] >>,
      << [id |-> "p1", point |-> StartPoint, shockedCount |-> ShockLimit - 1],
         [id |-> "p2", point |-> 0, shockedCount |-> 0] >> }

Init ==
    /\ players \in InitPlayers
    /\ round = plainRound
    /\ remainingChairs = Chairs
    /\ winnerId = Null
    /\ activations = 0
    /\ snapshot = << >>
    /\ txn = [u \in PlayerIds |-> << >>]

\* The round data a client sends: the round it sees with the chairs chosen so
\* far, ready to activate once a seat is taken
RoundData(e, s) ==
    [round EXCEPT !.electricChair = e, !.seatedChair = s,
                  !.phase = IF s = NoChair THEN "select" ELSE "activate"]

\* selectChairAction({ roomId, roundData }): updateRoom(roomId, { round })
SelectChairAction(roomId, e, s) ==
    /\ round' = IF roomId = RoomId THEN RoundData(e, s) ELSE round
    /\ UNCHANGED <<players, remainingChairs, winnerId, activations>>

\* activateAction(roomId): getRoom, then updateRoom with the outcome
ActivateAction(roomId) ==
    LET room == getRoom(roomId) IN
    IF room.status # 200
    THEN UNCHANGED vars
    ELSE LET data == activateData(room.data) IN
         /\ activations < MaxActivations
         /\ activations' = activations + 1
         /\ players' = data.players
         /\ remainingChairs' = data.remainingChairs
         /\ winnerId' = data.winnerId
         /\ round' = data.round

\* changeTurnAction({ roomId, userId }): confirmTurnResult with the callback
ChangeTurnAction(roomId, userId) ==
    LET res == confirmTurnResult(roomId, userId) IN
    /\ round' = res.round
    /\ UNCHANGED <<players, remainingChairs, winnerId, activations>>

\* Calls made one after the other: none is in flight between two calls
Next ==
    \/ \E roomId \in RoomIds, e \in Chairs \cup {NoChair}, s \in Chairs \cup {NoChair} :
            SelectChairAction(roomId, e, s) /\ UNCHANGED inflight
    \/ \E roomId \in RoomIds : ActivateAction(roomId) /\ UNCHANGED inflight
    \/ \E roomId \in RoomIds, userId \in UserIds :
            ChangeTurnAction(roomId, userId) /\ UNCHANGED inflight

Spec == Init /\ [][Next]_vars

----------------------------------------------------------------------------
(* Steps and states the properties speak of *)

\* a step in which activateAction wrote its outcome
ActivateStep == activations' = activations + 1

\* a step in which room.round was replaced by a fresh next round
AdvanceStep ==
    /\ round.phase = "result"
    /\ round'.phase = "select"
    /\ round'.result = plainRound.result
    /\ round'.turn # round.turn

\* the index of the attacker of the current round in players
AttackerIx == CHOOSE i \in DOMAIN players : players[i].id = round.attackerId

Range(seq) == { seq[i] : i \in DOMAIN seq }

\* the round is exactly as the second confirmation of a round left it
JustAdvanced ==
    /\ round = [plainRound EXCEPT !.attackerId = round.attackerId,
                                  !.turn = round.turn, !.count = round.count]
    /\ round.turn = "bottom" \/ round.count > 1

\* a changeTurnAction call by userId on roomId would leave the room as it is
ConfirmIsNoOp(roomId, userId) == confirmTurnResult(roomId, userId).round = round

----------------------------------------------------------------------------
(* C1 *)

\* C1: winnerId goes from null to a value at most once and, once it has a
\* value, no activateAction or changeTurnAction call changes it again.
C1_WinnerSetOnce == [][winnerId # Null => winnerId' = winnerId]_vars

----------------------------------------------------------------------------
(* C2 *)

\* C2: room.round is replaced by a fresh next round only by a confirmation
\* after which both of the room's players have confirmed the round's result;
\* confirmations of a single player never advance the round.
C2_AdvanceNeedsBothPlayers ==
    [][AdvanceStep =>
        \E u \in UserIds :
            /\ round' = confirmTurnResult(RoomId, u).round
            /\ PlayerIds \subseteq (Range(round.result.confirmedIds) \cup {u})]_vars

----------------------------------------------------------------------------
(* C3 *)

\* C3: once two confirmations have been recorded for a round (the round has
\* just advanced, or confirmedIds holds two entries), a further
\* changeTurnAction call by anyone leaves the whole room unchanged, and the
\* callback asks for no write when it is given three confirmed ids.
C3_ThirdConfirmIsNoOp ==
    /\ (JustAdvanced \/ Len(round.result.confirmedIds) >= 2) =>
            \A roomId \in RoomIds, u \in UserIds : ConfirmIsNoOp(roomId, u)
    \* a third id on top of two recorded ones makes the callback return null
    /\ \A ids \in [1..3 -> PlayerIds] : resolver(round, ids) = << >>

\* a round that two confirmations have just advanced
C3_Witness == JustAdvanced /\ activations > 0

----------------------------------------------------------------------------
(* C4 *)

\* C4: every application of activateAction either raises the attacker's
\* point by seatedChair or raises the attacker's shockedCount by 1, and
\* never both and never neither.
C4_PointOrShock ==
    [][ActivateStep =>
        LET before  == players[AttackerIx]
            after   == players'[AttackerIx]
            PointUp == /\ round.seatedChair # NoChair
                       /\ after.point = before.point + round.seatedChair
            ShockUp == after.shockedCount = before.shockedCount + 1
        IN (PointUp \/ ShockUp) /\ ~(PointUp /\ ShockUp)]_vars

----------------------------------------------------------------------------
(* C5 *)

\* C5 as stated: no step lowers any player's point.
C5_PointMonotone ==
    [][\A i \in DOMAIN players : players'[i].point >= players[i].point]_vars

\* C5 amended: a player's point is lowered only by a shocked activateAction,
\* which resets the attacker's point to 0; no other step lowers a point.
C5_PointDropsOnlyByShock ==
    [][\A i \in DOMAIN players :
          \/ players'[i].point >= players[i].point
          \/ /\ ActivateStep
             /\ isShocked(round)
             /\ players[i].id = round.attackerId
             /\ players'[i].point = 0]_vars

\* p1, first seen with StartPoint points, has been shocked once and holds 0
C5_Witness ==
    /\ activations = 1
    /\ players[1].shockedCount = ShockLimit
    /\ players[1].point = 0
    /\ round.result.status = "shocked"

----------------------------------------------------------------------------
(* C6 *)

\* C6: the size of remainingChairs never grows and remainingChairs never
\* becomes empty.
C6_ChairsShrinkNeverEmpty ==
    [][/\ Cardinality(remainingChairs') <= Cardinality(remainingChairs)
       /\ remainingChairs' # {}]_vars

----------------------------------------------------------------------------
(* C7 *)

\* C7: when activateAction leaves some player with point >= 40, winnerId is
\* the id of a player whose point is >= 40.
C7_ScoreVictory ==
    [][ActivateStep =>
        ((\E i \in DOMAIN players : players'[i].point >= WinPoint) =>
            \E i \in DOMAIN players :
                /\ players'[i].point >= WinPoint
                /\ winnerId' = players'[i].id)]_vars

----------------------------------------------------------------------------
(* C8 *)

\* C8: when activateAction leaves no player with point >= 40 and some player
\* with shockedCount = 3, winnerId is the id of the other player, whose
\* shockedCount is not 3.
C8_EliminationVictory ==
    [][ActivateStep =>
        ((/\ \A i \in DOMAIN players : players'[i].point < WinPoint
          /\ \E i \in DOMAIN players : players'[i].shockedCount = ShockLimit) =>
            \E i, j \in DOMAIN players :
                /\ i # j
                /\ players'[i].shockedCount = ShockLimit
                /\ players'[j].shockedCount # ShockLimit
                /\ winnerId' = players'[j].id)]_vars

----------------------------------------------------------------------------
(* C9 *)

\* C9: when activateAction fires neither the score nor the elimination rule,
\* then with exactly one chair left winnerId is the player with the strictly
\* higher point, and "draw" exactly when the points are equal; with any other
\* number of chairs left winnerId is null.
C9_ChairExhaustion ==
    [][ActivateStep =>
        ((/\ \A i \in DOMAIN players : players'[i].point < WinPoint
          /\ \A i \in DOMAIN players : players'[i].shockedCount # ShockLimit) =>
            IF Cardinality(remainingChairs') = 1
            THEN /\ \A i, j \in DOMAIN players :
                        players'[i].point > players'[j].point =>
                            winnerId' = players'[i].id
                 /\ (winnerId' = Draw) <=> (players'[1].point = players'[2].point)
            ELSE winnerId' = Null)]_vars

\* one chair is left, the points are equal and the game is a draw
C9_Witness ==
    /\ Cardinality(remainingChairs) = 1
    /\ players[1].point = players[2].point
    /\ winnerId = Draw
    /\ round.phase = "result"

----------------------------------------------------------------------------
(* C10 *)

\* a safe activateAction removes the single remaining chair and leaves the
\* two players with equal points
LastChairRemovedOnTie ==
    /\ ActivateStep
    /\ Cardinality(remainingChairs) = 1
    /\ remainingChairs' = {}
    /\ players'[1].point = players'[2].point

----------------------------------------------------------------------------
(* Confirmation steps *)

\* a step in which a confirmation was written on a round that had none
FirstConfirmStep ==
    /\ round.phase = "result"
    /\ round.result.confirmedIds = << >>
    /\ round'.result # round.result
    /\ activations' = activations

\* a step in which a confirmation was written on a round that had one
SecondConfirmStep ==
    /\ round.phase = "result"
    /\ Len(round.result.confirmedIds) = 1
    /\ round'.result # round.result
    /\ activations' = activations

\* the player who is not the attacker of the current round
OtherPlayer == CHOOSE u \in PlayerIds : u # round.attackerId

----------------------------------------------------------------------------
(* C11 *)

\* C11: activateAction changes the room only when round.phase is activate
\* and round.seatedChair is set; invoked otherwise it fails and leaves
\* players, remainingChairs, winnerId and round unchanged.
C11_ActivateNeedsSeat ==
    [][ActivateStep =>
        /\ round.phase = "activate"
        /\ round.seatedChair # NoChair]_vars

----------------------------------------------------------------------------
(* C12 *)

\* C12: while round.phase is not result, changeTurnAction by a player fails
\* (stale round) and writes nothing, and no step records a confirmation,
\* sets shownResult or advances the round.
C12_ConfirmNeedsResultPhase ==
    [][round.phase # "result" =>
        /\ \A u \in PlayerIds :
              /\ confirmTurnResult(RoomId, u).status # 200
              /\ confirmTurnResult(RoomId, u).round = round
        /\ round'.result.confirmedIds = round.result.confirmedIds
        /\ round'.result.shownResult = round.result.shownResult
        /\ round'.attackerId = round.attackerId
        /\ round'.turn = round.turn
        /\ round'.count = round.count]_vars

\* a round with both chairs chosen, waiting for activation
C12_Witness ==
    /\ round.phase = "activate"
    /\ round.seatedChair # NoChair
    /\ round.electricChair # NoChair
    /\ round.result.confirmedIds = << >>

----------------------------------------------------------------------------
(* C13 *)

\* C13: the second confirmation replaces the round: after turn top the new
\* turn is bottom and count is unchanged, after turn bottom the new turn is
\* top and count is one more; phase is select, both chairs are unset, the
\* result has no status, no confirmed ids and shownResult false.
C13_CycleRule ==
    [][SecondConfirmStep =>
        /\ round.turn = "top" =>
              (round'.turn = "bottom" /\ round'.count = round.count)
        /\ round.turn = "bottom" =>
              (round'.turn = "top" /\ round'.count = round.count + 1)
        /\ round'.phase = "select"
        /\ round'.electricChair = NoChair
        /\ round'.seatedChair = NoChair
        /\ round'.result = [status |-> Null, confirmedIds |-> << >>,
                            shownResult |-> FALSE]]_vars

\* a round reached by advancing from a bottom turn
C13_Witness == JustAdvanced /\ round.turn = "top" /\ round.count = 2

----------------------------------------------------------------------------
(* C14 *)

\* C14: when the second confirmation comes from the player who did not
\* confirm first, the new round's attacker is the player who was not the
\* attacker of the finished round, whichever of the two confirmed first.
C14_AttackerAlternates ==
    [][SecondConfirmStep =>
        \A u \in PlayerIds :
            (/\ u # round.result.confirmedIds[1]
             /\ round.result.confirmedIds[1] \in PlayerIds
             /\ round' = confirmTurnResult(RoomId, u).round)
            => round'.attackerId = OtherPlayer]_vars

\* the first advance of a game has handed the attack to p2
C14_Witness ==
    /\ JustAdvanced
    /\ round.turn = "bottom"
    /\ round.count = 1
    /\ round.attackerId = "p2"

----------------------------------------------------------------------------
(* C16 *)

\* C16: the outcome of a round is applied at most once: activateAction
\* changes the room only for a round that has no result yet, so further
\* calls before the round advances change nothing.
C16_ActivateOncePerRound ==
    [][ActivateStep => round.result.status = Null]_vars

----------------------------------------------------------------------------
(* C19 *)

\* C19: the first confirmation of a result-phase round stores the one
\* confirming player's id in confirmedIds and sets shownResult, and leaves
\* every other field of the round, the players, remainingChairs and winnerId
\* unchanged.
C19_FirstConfirmFrame ==
    [][FirstConfirmStep =>
        /\ \E u \in PlayerIds :
              round' = [round EXCEPT !.result = [status       |-> round.result.status,
                                                 confirmedIds |-> << u >>,
                                                 shownResult  |-> TRUE]]
        /\ UNCHANGED <<players, remainingChairs, winnerId>>]_vars

\* a result is shown and one player has confirmed it
C19_Witness ==
    /\ round.phase = "result"
    /\ Len(round.result.confirmedIds) = 1
    /\ round.result.shownResult
    /\ round.result.status # Null

----------------------------------------------------------------------------
(* C20 *)

\* C20: in every reachable state each player's shockedCount is in 0..3.
C20_ShockedCountAtMostThree ==
    \A i \in DOMAIN players : players[i].shockedCount \in 0..ShockLimit

----------------------------------------------------------------------------
(* A game played by the rules: while no winner is decided, the players     *)
(* choose the chairs of a round in its select phase, the seat being one of *)
(* the remaining chairs, the round is activated once the seat is taken,    *)
(* and each player confirms the result once.                               *)

\* selectChairAction setting the electric chair of the round, once
PlayElectric ==
    /\ winnerId = Null
    /\ round.phase = "select"
    /\ round.electricChair = NoChair
    /\ \E e \in Chairs : SelectChairAction(RoomId, e, NoChair)
    /\ UNCHANGED inflight

\* selectChairAction taking a seat among the remaining chairs
PlaySeat ==
    /\ winnerId = Null
    /\ round.phase = "select"
    /\ \E s \in remainingChairs : SelectChairAction(RoomId, round.electricChair, s)
    /\ UNCHANGED inflight

\* activateAction following the selection
PlayActivate ==
    /\ winnerId = Null
    /\ round.phase = "activate"
    /\ LET data == activateData(getRoom(RoomId).data) IN
         /\ activations' = activations + 1
         /\ players' = data.players
         /\ remainingChairs' = data.remainingChairs
         /\ winnerId' = data.winnerId
         /\ round' = data.round
    /\ UNCHANGED inflight

\* changeTurnAction by a player who has not confirmed the result yet
PlayConfirm ==
    /\ winnerId = Null
    /\ round.phase = "result"
    /\ \E u \in PlayerIds \ Range(round.result.confirmedIds) :
          ChangeTurnAction(RoomId, u)
    /\ UNCHANGED inflight

NextPlay == PlayElectric \/ PlaySeat \/ PlayActivate \/ PlayConfirm

\* both players keep acting
SpecPlay == Init /\ [][NextPlay]_vars /\ WF_vars(NextPlay)

----------------------------------------------------------------------------
(* C15 *)

\* C15: a game in which both players keep acting eventually has a winner.
C15_GameEnds == <>(winnerId # Null)

\* a game decided after at least one advance of the round
C15_Witness ==
    /\ winnerId # Null
    /\ round.phase = "result"
    /\ round.turn = "bottom"

----------------------------------------------------------------------------
(* Calls in flight.  activateAction awaits getRoom and later awaits        *)
(* updateRoom: other calls may run between its read and its write.         *)
(* confirmTurnResult runs its callback in a transaction of the store: the  *)
(* transaction reads the round, and commits only if the round is still the *)
(* one it read; otherwise it reads again and runs the callback again.      *)

\* activateAction called on a round shown in its activate phase, first
\* half: const room = await getRoom(roomId)
ActivateRead(roomId) ==
    /\ snapshot = << >>
    /\ round.phase = "activate"
    /\ activations < MaxRaceActivations
    /\ getRoom(roomId).status = 200
    /\ snapshot' = << getRoom(roomId).data >>
    /\ UNCHANGED <<players, round, remainingChairs, winnerId, activations, txn>>

\* activateAction, second half: await updateRoom(roomId, data), the data
\* computed from the room that was read
ActivateWrite ==
    /\ snapshot # << >>
    /\ activations < MaxRaceActivations
    /\ LET data == activateData(snapshot[1]) IN
         /\ activations' = activations + 1
         /\ players' = data.players
         /\ remainingChairs' = data.remainingChairs
         /\ winnerId' = data.winnerId
         /\ round' = data.round
    /\ snapshot' = << >>
    /\ UNCHANGED txn

\* the transaction of confirmTurnResult run on the round rd it has read
txnUpdate(rd, userId) ==
    IF \A i \in DOMAIN players : players[i].id # userId
    THEN [status |-> 403, round |-> rd]
    ELSE IF rd.phase # "result"
    THEN [status |-> 409, round |-> rd]
    ELSE LET update == resolver(rd, Append(rd.result.confirmedIds, userId))
         IN IF update = << >>
            THEN [status |-> 200, round |-> rd]
            ELSE [status |-> 200, round |-> update[1]]

\* a transaction that commits whatever was written since it read
TxnConflictIgnored(userId) == FALSE

\* the round was written since the transaction of userId read it
TxnConflict(userId) == txn[userId][1] # round

\* changeTurnAction by a player who sees a result: the transaction of
\* confirmTurnResult reads the round
ConfirmBegin(userId) ==
    /\ txn[userId] = << >>
    /\ round.phase = "result"
    /\ txn' = [txn EXCEPT ![userId] = << round >>]
    /\ UNCHANGED <<players, round, remainingChairs, winnerId, activations, snapshot>>

\* changeTurnAction: the transaction commits, or runs again on a conflict
ConfirmCommit(userId) ==
    /\ txn[userId] # << >>
    /\ IF TxnConflict(userId)
       THEN /\ txn' = [txn EXCEPT ![userId] = << round >>]
            /\ UNCHANGED round
       ELSE /\ round' = txnUpdate(txn[userId][1], userId).round
            /\ txn' = [txn EXCEPT ![userId] = << >>]
    /\ UNCHANGED <<players, remainingChairs, winnerId, activations, snapshot>>

\* selectChairAction with both chairs chosen, for a round in its select phase
RaceSelect ==
    /\ round.phase = "select"
    /\ \E e \in Chairs, s \in Chairs : SelectChairAction(RoomId, e, s)
    /\ UNCHANGED inflight

NextRace ==
    \/ RaceSelect
    \/ /\ activations < MaxRaceActivations
       /\ ActivateAction(RoomId)
       /\ UNCHANGED inflight
    \/ ActivateRead(RoomId)
    \/ ActivateWrite
    \/ \E userId \in PlayerIds : ConfirmBegin(userId)
    \/ \E userId \in PlayerIds : ConfirmCommit(userId)

SpecRace == Init /\ [][NextRace]_vars

----------------------------------------------------------------------------
(* C17 *)

\* the transaction of player u commits
CommitStep(u) == txn[u] # << >> /\ txn'[u] = << >>

\* C17: in every interleaving of the players' changeTurnAction calls, each
\* commit on a result-phase round either records the first confirmation
\* (nothing else of the round changes) or, a confirmation being recorded
\* already, advances the round once: the turn toggles, the count grows by
\* at most 1 and the confirmations start empty.  No commit drops a
\* confirmation recorded by the other call.
C17_ConfirmsSerialized ==
    [][\A u \in PlayerIds :
          (CommitStep(u) /\ round.phase = "result") =>
             IF round.result.confirmedIds = << >>
             THEN round' = [round EXCEPT !.result.confirmedIds = << u >>,
                                         !.result.shownResult = TRUE]
             ELSE IF Len(round.result.confirmedIds) = 1
             THEN /\ round'.phase = "select"
                  /\ round'.turn # round.turn
                  /\ round'.count - round.count \in {0, 1}
                  /\ round'.result.confirmedIds = << >>
             ELSE UNCHANGED round]_vars

\* the two calls overlap: p2's transaction has read the round without any
\* confirmation, and p1's confirmation was committed since
C17_Witness ==
    /\ round.phase = "result"
    /\ round.result.confirmedIds = << "p1" >>
    /\ txn["p1"] = << >>
    /\ txn["p2"] # << >>
    /\ txn["p2"][1].result.confirmedIds = << >>
    /\ txn["p2"][1].count = round.count
    /\ txn["p2"][1].turn = round.turn

----------------------------------------------------------------------------
(* C18 *)

\* the write of an activateAction call whose read was a step of its own
ActivateWriteStep == snapshot # << >> /\ snapshot' = << >>

\* C18: the write of activateAction leaves what was committed after its
\* read: the recorded confirmations stay, and the round stays the round it
\* is (same turn, same count, same attacker).
C18_ActivateWriteKeepsLaterState ==
    [][ActivateWriteStep =>
          /\ round'.result.confirmedIds = round.result.confirmedIds
          /\ round'.turn = round.turn
          /\ round'.count = round.count
          /\ round'.attackerId = round.attackerId]_vars

====
